---- MODULE Spec2Model ----
(***************************************************************************)
(* Model of the xca9548a driver (src/src/lib.rs): the SlaveAddr address    *)
(* computation, the device struct held in a RefCell, do_on_acquired, the   *)
(* two control-register operations and the three pass-through I2C          *)
(* operations.  The I2C bus implementation is an external collaborator     *)
(* and answers every call nondeterministically.                            *)
(***************************************************************************)
EXTENDS Integers, Sequences, FiniteSets, TLC

VARIABLES
    phase,      \* "alive" between new() and destroy(), else "destroyed"
    data,       \* the Xca9548a struct inside the RefCell: [i2c, address]
    borrow,     \* the RefCell borrow flag
    stack,      \* call stack of driver operations that have not returned
    ncalls,     \* calls the bus has received since the caller last invoked the driver
    returned,   \* value returned by the last destroy()
    orig,       \* history: the bus handle passed to the last new()
    sel,        \* history: the selector passed to the last new()
    lastMask,   \* history: the mask of the last select_channels call
    lastTag,    \* history: how the last top-level operation returned
    probe       \* one evaluation of SlaveAddr::addr: [pc, sel, base, out]

vars == <<phase, data, borrow, stack, ncalls, returned, orig, sel, lastMask, lastTag, probe>>

----------------------------------------------------------------------------
(* Bounds of the model *)

MaxLen == 1         \* longest payload / buffer a caller passes
MaxDepth == 2       \* deepest nesting of driver calls

(* Sample values *)
Bytes == {0, 165}
SlaveAddrs == {72, 112}          \* 0x48 (a downstream slave), 0x70
Handles == {"busA", "busB"}
Errs == {"Nack", "ArbitrationLoss"}
U8 == 0..255

----------------------------------------------------------------------------
(* u8 arithmetic *)

RECURSIVE BitOr(_, _)
BitOr(a, b) ==
    IF a = 0 THEN b
    ELSE IF b = 0 THEN a
    ELSE (IF (a % 2 = 1) \/ (b % 2 = 1) THEN 1 ELSE 0)
         + 2 * BitOr(a \div 2, b \div 2)

RECURSIVE Pow2(_)
Pow2(n) == IF n = 0 THEN 1 ELSE 2 * Pow2(n - 1)

Shl(x, n) == (x * Pow2(n)) % 256

AsU8(b) == IF b THEN 1 ELSE 0

Bit(x, i) == (x \div Pow2(i)) % 2

----------------------------------------------------------------------------
(* SlaveAddr *)

Default == [kind |-> "Default", a2 |-> FALSE, a1 |-> FALSE, a0 |-> FALSE]

Alternative(a2, a1, a0) == [kind |-> "Alternative", a2 |-> a2, a1 |-> a1, a0 |-> a0]

SlaveAddr == {Default} \cup {Alternative(a2, a1, a0) : a2 \in BOOLEAN, a1 \in BOOLEAN, a0 \in BOOLEAN}

(* the selectors the device is built with in Spec; SpecAddr takes them all *)
Selectors ==
    {Default, Alternative(FALSE, FALSE, TRUE), Alternative(TRUE, TRUE, FALSE),
     Alternative(TRUE, TRUE, TRUE)}

DEVICE_BASE_ADDRESS == 112

addr_low_bits_dropped(self, default) == default

addr(self, default) ==
    IF self.kind = "Default" THEN default
    ELSE BitOr(BitOr(BitOr(default, Shl(AsU8(self.a2), 2)), Shl(AsU8(self.a1), 1)), AsU8(self.a0))

----------------------------------------------------------------------------
(* Error<E> and Result values *)

Unit == -1
NoErr == "-"

Ok(v) == [tag |-> "Ok", e |-> NoErr, val |-> v]
I2C(e) == [tag |-> "I2C", e |-> e, val |-> Unit]
CouldNotAcquireDevice == [tag |-> "CouldNotAcquireDevice", e |-> NoErr, val |-> Unit]
Pending == [tag |-> "Pending", e |-> NoErr, val |-> Unit]

(* Result<(), E>::map_err(Error::I2C) on the bus implementation's answer *)
map_err_swallowed(resp) == Ok(Unit)

map_err(resp) == IF resp.ok THEN Ok(Unit) ELSE I2C(resp.e)

----------------------------------------------------------------------------
(* The bus implementation: calls and answers *)

RECURSIVE SeqsOfLen(_, _)
SeqsOfLen(S, n) ==
    IF n = 0 THEN {<<>>}
    ELSE {Append(s, x) : s \in SeqsOfLen(S, n - 1), x \in S}

SeqsUpTo(S, n) == UNION {SeqsOfLen(S, k) : k \in 0..n}

Zeros(n) == [i \in 1..n |-> 0]

NoResp == [ok |-> TRUE, e |-> NoErr, buffer |-> <<>>]

Responses(call) ==
    {[ok |-> TRUE, e |-> NoErr, buffer |-> b] : b \in SeqsOfLen(Bytes, call.buflen)}
    \cup {[ok |-> FALSE, e |-> e, buffer |-> Zeros(call.buflen)] : e \in Errs}

----------------------------------------------------------------------------
(* RefCell<Xca9548a<I2C>> *)

UNUSED == 0

(* RefCell::try_borrow_mut: succeeds only on an unused cell *)
try_borrow_mut_unchecked(flag) == [ok |-> TRUE, flag |-> flag - 1]

try_borrow_mut(flag) ==
    IF flag = UNUSED THEN [ok |-> TRUE, flag |-> UNUSED - 1]
    ELSE [ok |-> FALSE, flag |-> flag]

(* drop of the RefMut moved into the closure, at the closure's end *)
drop_RefMut_leaked(flag) == flag

drop_RefMut(flag) == flag + 1

----------------------------------------------------------------------------
(* new / destroy *)

NoHandle == "none"

new(i2c, address) == [i2c |-> i2c, address |-> addr(address, DEVICE_BASE_ADDRESS)]

destroy_other(self) == CHOOSE h \in Handles : h /= self.i2c

destroy(self) == self.i2c

----------------------------------------------------------------------------
(* The closures handed to do_on_acquired: the bus call each one issues     *)
(* (dev is the acquired struct) and what it makes of the answer.           *)

BusCall(kind, i2c, address, bytes, buflen) ==
    [kind |-> kind, i2c |-> i2c, address |-> address, bytes |-> bytes, buflen |-> buflen]

select_channels_off_by_one(dev, channels) ==
    BusCall("write", dev.i2c, DEVICE_BASE_ADDRESS + 1, <<channels>>, 0)

select_channels(dev, channels) ==
    BusCall("write", dev.i2c, DEVICE_BASE_ADDRESS, <<channels>>, 0)

select_channels_ret(resp) == [result |-> map_err(resp), buffer |-> <<>>]

get_channel_status(dev) ==
    BusCall("read", dev.i2c, DEVICE_BASE_ADDRESS, <<>>, 1)

(* data = [0]; read(.., &mut data).map_err(Error::I2C).and(Ok(data[0])) *)
get_channel_status_ret_stale(resp) ==
    [result |-> IF map_err(resp).tag = "Ok" THEN Ok(0) ELSE map_err(resp),
     buffer |-> resp.buffer]

get_channel_status_ret(resp) ==
    [result |-> IF map_err(resp).tag = "Ok" THEN Ok(resp.buffer[1]) ELSE map_err(resp),
     buffer |-> resp.buffer]

write(dev, address, bytes) ==
    BusCall("write", dev.i2c, address, bytes, 0)

write_ret(resp) == [result |-> map_err(resp), buffer |-> <<>>]

read(dev, address, buffer) ==
    BusCall("read", dev.i2c, address, <<>>, Len(buffer))

read_ret(resp) == [result |-> map_err(resp), buffer |-> resp.buffer]

write_read_to_self(dev, address, bytes, buffer) ==
    BusCall("write_read", dev.i2c, dev.address, bytes, Len(buffer))

write_read(dev, address, bytes, buffer) ==
    BusCall("write_read", dev.i2c, address, bytes, Len(buffer))

write_read_ret(resp) == [result |-> map_err(resp), buffer |-> resp.buffer]

Ops == {"select_channels", "get_channel_status", "write", "read", "write_read"}

(* f(dev), first half: the bus call of frame f's closure *)
Request(dev, f) ==
    CASE f.op = "select_channels" -> select_channels(dev, f.channels)
      [] f.op = "get_channel_status" -> get_channel_status(dev)
      [] f.op = "write" -> write(dev, f.address, f.bytes)
      [] f.op = "read" -> read(dev, f.address, f.buffer)
      [] f.op = "write_read" -> write_read(dev, f.address, f.bytes, f.buffer)

(* f(dev), second half: the closure's value once the bus has answered *)
Reply(f, resp) ==
    CASE f.op = "select_channels" -> select_channels_ret(resp)
      [] f.op = "get_channel_status" -> get_channel_status_ret(resp)
      [] f.op = "write" -> write_ret(resp)
      [] f.op = "read" -> read_ret(resp)
      [] f.op = "write_read" -> write_read_ret(resp)

----------------------------------------------------------------------------
(* State machine *)

NoMask == -1

Frame(op, address, channels, bytes, buffer) ==
    [op |-> op, address |-> address, channels |-> channels, bytes |-> bytes,
     arg |-> buffer, buffer |-> buffer, pc |-> "acquire", guard |-> FALSE,
     calls |-> <<>>, resp |-> NoResp, result |-> Pending]

Top == stack[Len(stack)]

SetTop(f) == [stack EXCEPT ![Len(stack)] = f]

IdleProbe == [pc |-> "idle", sel |-> Default, base |-> 0, out |-> 0]

Built(selectors) ==
    /\ phase = "alive"
    /\ \E i2c \in Handles, address \in selectors :
          /\ data = new(i2c, address)
          /\ orig = i2c
          /\ sel = address
    /\ borrow = UNUSED
    /\ stack = <<>>
    /\ ncalls = 0
    /\ returned = NoHandle
    /\ lastMask = NoMask
    /\ lastTag = "none"
    /\ probe = IdleProbe

Init == Built(Selectors)

(* A driver method is entered: from the caller when nothing is running, or *)
(* from inside the running bus call.                                       *)
CanCall ==
    /\ phase = "alive"
    /\ Len(stack) < MaxDepth
    /\ stack /= <<>> => Top.pc = "transport"

Enter(f) ==
    /\ CanCall
    /\ stack' = Append(stack, f)
    /\ ncalls' = IF stack = <<>> THEN 0 ELSE ncalls
    /\ UNCHANGED <<phase, data, borrow, returned, orig, sel, lastTag, probe>>

CallSelectChannels ==
    \E channels \in Bytes :
        /\ Enter(Frame("select_channels", 0, channels, <<>>, <<>>))
        /\ lastMask' = channels

CallGetChannelStatus ==
    /\ Enter(Frame("get_channel_status", 0, 0, <<>>, <<0>>))
    /\ UNCHANGED lastMask

CallWrite ==
    \E address \in SlaveAddrs, bytes \in SeqsUpTo(Bytes, MaxLen) :
        /\ Enter(Frame("write", address, 0, bytes, <<>>))
        /\ UNCHANGED lastMask

CallRead ==
    \E address \in SlaveAddrs, n \in 0..MaxLen :
        /\ Enter(Frame("read", address, 0, <<>>, Zeros(n)))
        /\ UNCHANGED lastMask

CallWriteRead ==
    \E address \in SlaveAddrs, bytes \in SeqsUpTo(Bytes, MaxLen), n \in 0..MaxLen :
        /\ Enter(Frame("write_read", address, 0, bytes, Zeros(n)))
        /\ UNCHANGED lastMask

(* do_on_acquired: self.data.try_borrow_mut().map_err(..)? *)
Acquire ==
    /\ stack /= <<>>
    /\ Top.pc = "acquire"
    /\ LET r == try_borrow_mut(borrow) IN
          IF r.ok
          THEN /\ borrow' = r.flag
               /\ stack' = SetTop([Top EXCEPT !.pc = "closure", !.guard = TRUE])
          ELSE /\ borrow' = borrow
               /\ stack' = SetTop([Top EXCEPT !.pc = "return", !.result = CouldNotAcquireDevice])
    /\ UNCHANGED <<phase, data, ncalls, returned, orig, sel, lastMask, lastTag, probe>>

(* do_on_acquired: f(dev), the closure hands its call to the bus *)
TransportBegin ==
    /\ stack /= <<>>
    /\ Top.pc = "closure"
    /\ stack' = SetTop([Top EXCEPT !.pc = "transport",
                                   !.calls = Append(@, Request(data, Top))])
    /\ ncalls' = ncalls + 1
    /\ UNCHANGED <<phase, data, borrow, returned, orig, sel, lastMask, lastTag, probe>>

(* do_on_acquired: the bus answers, the closure returns and drops dev *)
TransportEnd ==
    /\ stack /= <<>>
    /\ Top.pc = "transport"
    /\ \E resp \in Responses(Top.calls[Len(Top.calls)]) :
          LET r == Reply(Top, resp) IN
          stack' = SetTop([Top EXCEPT !.pc = "return", !.guard = FALSE, !.resp = resp,
                                      !.result = r.result, !.buffer = r.buffer])
    /\ borrow' = drop_RefMut(borrow)
    /\ UNCHANGED <<phase, data, ncalls, returned, orig, sel, lastMask, lastTag, probe>>

(* the method returns to its caller *)
Return ==
    /\ stack /= <<>>
    /\ Top.pc = "return"
    /\ stack' = SubSeq(stack, 1, Len(stack) - 1)
    /\ lastTag' = IF Len(stack) = 1 THEN Top.result.tag ELSE lastTag
    /\ UNCHANGED <<phase, data, borrow, ncalls, returned, orig, sel, lastMask, probe>>

Destroy ==
    /\ phase = "alive"
    /\ stack = <<>>
    /\ phase' = "destroyed"
    /\ returned' = destroy(data)
    /\ UNCHANGED <<data, borrow, stack, ncalls, orig, sel, lastMask, lastTag, probe>>

(* the caller builds a new device around a bus handle *)
Construct ==
    /\ phase = "destroyed"
    /\ \E i2c \in Handles, address \in Selectors :
          /\ data' = new(i2c, address)
          /\ orig' = i2c
          /\ sel' = address
    /\ phase' = "alive"
    /\ borrow' = UNUSED
    /\ returned' = NoHandle
    /\ UNCHANGED <<stack, ncalls, lastMask, lastTag, probe>>

Next ==
    \/ CallSelectChannels
    \/ CallGetChannelStatus
    \/ CallWrite
    \/ CallRead
    \/ CallWriteRead
    \/ Acquire
    \/ TransportBegin
    \/ TransportEnd
    \/ Return
    \/ Destroy
    \/ Construct

Spec == Init /\ [][Next]_vars

(* SlaveAddr::addr evaluated on every selector and every u8 base *)
Probe ==
    \E self \in SlaveAddr, default \in U8 :
        /\ probe.pc = "idle"
        /\ probe' = [pc |-> "done", sel |-> self, base |-> default, out |-> addr(self, default)]
        /\ UNCHANGED <<phase, data, borrow, stack, ncalls, returned, orig, sel, lastMask, lastTag>>

InitAddr == Built(SlaveAddr)

NextAddr == Probe

SpecAddr == InitAddr /\ [][NextAddr]_vars

TypeOK ==
    /\ phase \in {"alive", "destroyed"}
    /\ data.i2c \in Handles /\ data.address \in U8
    /\ borrow \in Int
    /\ Len(stack) <= MaxDepth
    /\ ncalls \in Nat

----------------------------------------------------------------------------
(* Properties *)

Frames == {stack[i] : i \in 1..Len(stack)}

ControlOps == {"select_channels", "get_channel_status"}

PassThroughOps == {"write", "read", "write_read"}

StrapBits(s) == 4 * AsU8(s.a2) + 2 * AsU8(s.a1) + AsU8(s.a0)

(* the frame of an operation that was called on an idle device *)
IdleCalled(i) == i = 1

Returning(i) == i \in 1..Len(stack) /\ stack[i].pc = "return"

(* C1: every bus call of select_channels and get_channel_status goes to the
   address new() resolved from the selector and stored in the device. *)
C1_ControlCallsUseOwnAddress ==
    \A f \in Frames : f.op \in ControlOps =>
        \A k \in 1..Len(f.calls) :
            /\ f.calls[k].address = data.address
            /\ f.calls[k].address = DEVICE_BASE_ADDRESS + StrapBits(sel)

(* C2: addr(Default, B) = B; addr(Alternative(a2,a1,a0), B) is the bitwise OR
   of B and 4*a2+2*a1+a0; on base 0b1110000 that is 0b1110000 + the strap
   bits, bits 3..7 never change, and new() stores that address. *)
C2_AddressResolution ==
    /\ probe.pc = "done" =>
          /\ probe.sel.kind = "Default" => probe.out = probe.base
          /\ probe.sel.kind = "Alternative" =>
                \A i \in 0..7 :
                    Bit(probe.out, i) =
                        IF Bit(probe.base, i) = 1 \/ Bit(StrapBits(probe.sel), i) = 1 THEN 1 ELSE 0
          /\ probe.base = DEVICE_BASE_ADDRESS =>
                /\ probe.out = 112 + StrapBits(probe.sel)
                /\ probe.out \in 112..119
          /\ \A i \in 3..7 : Bit(probe.out, i) = Bit(probe.base, i)
          /\ probe.out \in U8
    /\ data.address = 112 + StrapBits(sel)

C2_Witness ==
    /\ probe.pc = "done"
    /\ probe.sel = Alternative(TRUE, FALSE, TRUE)
    /\ probe.base = 112
    /\ probe.out = 117
    /\ sel = Alternative(FALSE, TRUE, TRUE)
    /\ data.address = 115

(* C3: select_channels(mask) on an idle Default-address device makes exactly
   one bus call, write(0b1110000, [mask]), and returns Ok(()) when the write
   succeeded. *)
C3_SelectChannelsProtocol ==
    \A i \in 1..Len(stack) :
        (IdleCalled(i) /\ sel = Default /\ stack[i].op = "select_channels") =>
            /\ Len(stack[i].calls) <= 1
            /\ stack[i].pc \in {"transport", "return"} =>
                  stack[i].calls = <<BusCall("write", orig, 112, <<stack[i].channels>>, 0)>>
            /\ stack[i].pc = "return" => ncalls = 1
            /\ (stack[i].pc = "return" /\ stack[i].resp.ok) => stack[i].result = Ok(Unit)

C3_Witness ==
    /\ Returning(1)
    /\ sel = Default
    /\ stack[1].op = "select_channels"
    /\ stack[1].channels = 165
    /\ stack[1].calls = <<BusCall("write", orig, 112, <<165>>, 0)>>
    /\ stack[1].result = Ok(Unit)

(* C4: get_channel_status() on an idle Default-address device makes exactly
   one bus call, a read of one byte from 0b1110000, and on success returns
   the byte the bus put in the buffer, whatever mask was selected before. *)
C4_GetChannelStatusProtocol ==
    \A i \in 1..Len(stack) :
        (IdleCalled(i) /\ sel = Default /\ stack[i].op = "get_channel_status") =>
            /\ Len(stack[i].calls) <= 1
            /\ stack[i].pc \in {"transport", "return"} =>
                  stack[i].calls = <<BusCall("read", orig, 112, <<>>, 1)>>
            /\ stack[i].pc = "return" => ncalls = 1
            /\ (stack[i].pc = "return" /\ stack[i].resp.ok) =>
                  stack[i].result = Ok(stack[i].resp.buffer[1])

C4_Witness ==
    /\ Returning(1)
    /\ sel = Default
    /\ stack[1].op = "get_channel_status"
    /\ lastMask = 0
    /\ stack[1].resp.ok
    /\ stack[1].resp.buffer = <<165>>
    /\ stack[1].result = Ok(165)

(* C5: read, write and write_read on an idle device make exactly one bus call
   of the same kind, to the caller's slave address, with the caller's bytes
   and a buffer of the caller's length, and the caller's buffer holds what
   the bus put there. *)
C5_PassThrough ==
    \A i \in 1..Len(stack) :
        (IdleCalled(i) /\ stack[i].op \in PassThroughOps) =>
            /\ Len(stack[i].calls) <= 1
            /\ stack[i].pc \in {"transport", "return"} =>
                  stack[i].calls = <<BusCall(stack[i].op, orig, stack[i].address,
                                             stack[i].bytes, Len(stack[i].arg))>>
            /\ stack[i].pc = "return" => ncalls = 1
            /\ (stack[i].pc = "return" /\ stack[i].op /= "write") =>
                  stack[i].buffer = stack[i].resp.buffer

C5_Witness ==
    /\ Returning(1)
    /\ stack[1].op = "write_read"
    /\ stack[1].address = 72
    /\ data.address = 113
    /\ stack[1].bytes = <<165>>
    /\ stack[1].calls = <<BusCall("write_read", orig, 72, <<165>>, 1)>>
    /\ stack[1].buffer = <<0>>
    /\ stack[1].result = Ok(Unit)

(* C6: an operation attempted while another one holds the RefMut returns
   CouldNotAcquireDevice, has made no bus call, and leaves the holder's
   guard and the borrow flag as they were. *)
C6_ReentrantRejected ==
    \A i \in 2..Len(stack) :
        (stack[i - 1].guard /\ stack[i].pc /= "acquire") =>
            /\ stack[i].pc = "return"
            /\ stack[i].result = CouldNotAcquireDevice
            /\ stack[i].calls = <<>>
            /\ ~stack[i].guard
            /\ borrow = UNUSED - 1
            /\ stack[i - 1].pc = "transport"
            /\ Len(stack[i - 1].calls) = 1

C6_Witness ==
    /\ Len(stack) = 2
    /\ stack[1].guard
    /\ stack[1].op = "write"
    /\ stack[2].op = "select_channels"
    /\ stack[2].pc = "return"
    /\ stack[2].result = CouldNotAcquireDevice
    /\ stack[2].calls = <<>>

(* C7: when the bus call of an operation fails with e, the operation returns
   Error::I2C(e) with that e and has made exactly one bus call. *)
C7_TransportErrorForwarded ==
    \A f \in Frames :
        (f.pc = "return" /\ f.calls /= <<>> /\ ~f.resp.ok) =>
            /\ f.result = I2C(f.resp.e)
            /\ f.resp.e \in Errs
            /\ Len(f.calls) = 1

C7_Witness ==
    /\ Returning(1)
    /\ stack[1].op = "get_channel_status"
    /\ ~stack[1].resp.ok
    /\ stack[1].resp.e = "ArbitrationLoss"
    /\ stack[1].result = I2C("ArbitrationLoss")

(* C8: destroy() returns the bus handle that was passed to new(), whatever
   ran in between, and neither new() nor destroy() makes a bus call. *)
C8_DestroyReturnsHandle ==
    [][/\ (phase = "alive" /\ phase' = "destroyed") =>
              (returned' = orig /\ ncalls' = ncalls)
       /\ (phase = "destroyed" /\ phase' = "alive") =>
              (data'.i2c = orig' /\ ncalls' = ncalls)
       /\ phase' = "alive" => data'.i2c = orig']_vars

C8_Witness ==
    /\ phase = "destroyed"
    /\ orig = "busB"
    /\ returned = "busB"
    /\ sel = Alternative(TRUE, TRUE, FALSE)
    /\ ncalls = 1
    /\ lastTag = "I2C"

(* C9: at most one operation holds the RefMut of the device, and at most one
   bus call made through the device is in progress. *)
C9_MutualExclusion ==
    /\ Cardinality({i \in 1..Len(stack) : stack[i].guard}) <= 1
    /\ Cardinality({i \in 1..Len(stack) : stack[i].pc = "transport"}) <= 1
    /\ (\E i \in 1..Len(stack) : stack[i].guard) <=> borrow /= UNUSED

C9_Witness ==
    /\ Len(stack) = 2
    /\ stack[1].guard
    /\ stack[1].pc = "transport"
    /\ stack[2].pc = "return"
    /\ borrow = UNUSED - 1

(* C10: when an operation that acquired the device returns, with Ok or with
   Error::I2C, the RefCell is unused again, so an operation called while no
   other one is running never returns CouldNotAcquireDevice. *)
C10_ReleasedOnReturn ==
    /\ stack = <<>> => borrow = UNUSED
    /\ Returning(1) =>
          /\ stack[1].result.tag \in {"Ok", "I2C"}
          /\ borrow = UNUSED
    /\ lastTag /= "CouldNotAcquireDevice"

C10_Witness ==
    /\ Returning(1)
    /\ lastTag = "I2C"
    /\ stack[1].result.tag = "Ok"
    /\ borrow = UNUSED

====
